---------------------------- MODULE Spec2Model ----------------------------
(***************************************************************************)
(* Cortex: incremental indexing pipeline (file-sync-embeddings.ts), the    *)
(* document chunker, the db:sync script and the git pre-commit hook.       *)
(*                                                                         *)
(* Text is kept run-length encoded: a text is a sequence of runs <<k, n>>, *)
(* k = "x" for a non-whitespace character and k = "s" for a whitespace     *)
(* character, n >= 1 the number of equal characters, adjacent runs of      *)
(* different kinds.  Lengths, slices and trims are those of the string.    *)
(***************************************************************************)
EXTENDS Integers, Sequences, FiniteSets, Bags, TLC

Min(a, b) == IF a < b THEN a ELSE b
Max(a, b) == IF a > b THEN a ELSE b

\* ------------------------------------------------------------------ text

RECURSIVE TLen(_)
\* String.length
TLen(t) == IF t = <<>> THEN 0 ELSE t[1][2] + TLen(Tail(t))

\* s + t
TConcat(s, t) ==
  IF s = <<>> THEN t
  ELSE IF t = <<>> THEN s
  ELSE IF s[Len(s)][1] = t[1][1]
       THEN SubSeq(s, 1, Len(s) - 1)
              \o << <<t[1][1], s[Len(s)][2] + t[1][2]>> >>
              \o Tail(t)
       ELSE s \o t

RECURSIVE TSlice(_, _, _)
\* String.slice(a, b) for 0 <= a, 0 <= b
TSlice(t, a, b) ==
  IF t = <<>> \/ b <= 0 THEN <<>>
  ELSE LET n  == t[1][2]
           lo == Max(a, 0)
           hi == Min(b, n)
       IN (IF hi > lo THEN << <<t[1][1], hi - lo>> >> ELSE <<>>)
            \o TSlice(Tail(t), a - n, b - n)

\* String.slice(-n)
TSliceLast(t, n) == TSlice(t, Max(TLen(t) - n, 0), TLen(t))

\* String.trim()
TTrim(t) ==
  LET a == IF t # <<>> /\ t[1][1] = "s" THEN Tail(t) ELSE t
  IN IF a # <<>> /\ a[Len(a)][1] = "s" THEN SubSeq(a, 1, Len(a) - 1) ELSE a

\* ------------------------------------------------------- document chunker

MAX_CHUNK_SIZE == 256 * 4
OVERLAP_SIZE == 25 * 4

\* crypto.createHash('sha256').update(content).digest('hex'): injective on
\* the contents of the model
Sha256(content) == <<"sha256", content>>

hashFile(content) == Sha256(content)

createChunk(content, index, section) ==
  [content    |-> content,
   index      |-> index,
   section    |-> section,
   tokenCount |-> TLen(content) \div 4,
   hash       |-> Sha256(content)]

\* A file content is the sequence of parts that content.split(/^(#{1,6}\s+.+)$/gm)
\* yields: body texts at the odd positions, heading lines at the even ones.
\* A body part is <<"b", text>>; a heading part is <<"h", level, title, tlen>>:
\* level '#', one blank, a title of tlen characters.
Body(text) == <<"b", text>>
Heading(level, title, tlen) == <<"h", level, title, tlen>>

\* part.match(/^#{1,6}\s+/)
IsHeading(part) == part[1] = "h"

HeadingText(h) == << <<"x", h[2]>>, <<"s", 1>>, <<"x", h[4]>> >>

PartText(part) == IF IsHeading(part) THEN HeadingText(part) ELSE part[2]

RECURSIVE Flatten(_)
\* the content as one string
Flatten(doc) ==
  IF doc = <<>> THEN <<>> ELSE TConcat(PartText(doc[1]), Flatten(Tail(doc)))

RECURSIVE MarkdownLoop(_, _, _, _, _)
\* the for loop of chunkMarkdown and the final push
MarkdownLoop(sections, currentSection, currentContent, chunkIndex, chunks) ==
  IF sections = <<>>
  THEN IF TTrim(currentContent) # <<>>
       THEN Append(chunks, createChunk(TTrim(currentContent), chunkIndex, currentSection))
       ELSE chunks
  ELSE LET part == sections[1] IN
       IF IsHeading(part)
       THEN MarkdownLoop(Tail(sections), part[3], currentContent, chunkIndex, chunks)
       ELSE LET cc == TConcat(currentContent, part[2]) IN
            IF TLen(cc) > MAX_CHUNK_SIZE
            THEN MarkdownLoop(Tail(sections), currentSection,
                              TSliceLast(cc, OVERLAP_SIZE), chunkIndex + 1,
                              Append(chunks, createChunk(TTrim(cc), chunkIndex, currentSection)))
            ELSE MarkdownLoop(Tail(sections), currentSection, cc, chunkIndex, chunks)

chunkMarkdown(content) == MarkdownLoop(content, "", <<>>, 0, <<>>)

RECURSIVE PlainLoop(_, _, _, _)
\* the while loop of chunkPlainText
PlainLoop(text, start, chunkIndex, chunks) ==
  IF ~(start < TLen(text)) THEN chunks
  ELSE LET end       == Min(start + MAX_CHUNK_SIZE, TLen(text))
           pushed    == Append(chunks, createChunk(TSlice(text, start, end), chunkIndex, ""))
           nextStart == end - OVERLAP_SIZE
       IN IF nextStart <= start THEN pushed
          ELSE PlainLoop(text, nextStart, chunkIndex + 1, pushed)

chunkPlainText(content) == PlainLoop(Flatten(content), 0, 0, <<>>)

chunkTypeScript(content) == chunkPlainText(content)

chunkDocument(filePath, content, fileType) ==
  IF fileType = "md" THEN chunkMarkdown(content)
  ELSE IF fileType \in {"ts", "tsx"} THEN chunkTypeScript(content)
  ELSE chunkPlainText(content)

\* ------------------------------------------------------------ file sync

\* A path is <<name, extension>>: path.extname(filePath).slice(1) is its
\* second component.
getFileType(filePath) ==
  LET ext == filePath[2] IN
  IF ext = "md" THEN "md"
  ELSE IF ext = "ts" THEN "ts"
  ELSE IF ext = "tsx" THEN "tsx"
  ELSE IF ext = "json" THEN "json"
  ELSE "md"

NoLanguage == "null"

getLanguage(fileType) ==
  IF fileType \in {"ts", "tsx"} THEN "typescript"
  ELSE IF fileType = "json" THEN "json"
  ELSE NoLanguage

\* the hard ceiling of syncFile's loop: chunk.content.length > 4000
OVERSIZE_LIMIT == 4000

\* a ceiling that also rejects a chunk of exactly the limit
IsOversizedInclusive(chunk) == TLen(chunk.content) >= OVERSIZE_LIMIT

IsOversized(chunk) == TLen(chunk.content) > OVERSIZE_LIMIT

\* The embedding service is a function of the prompt; the vectors of the
\* model have two integer components.
OllamaEmbedding(text) == <<(TLen(text) % 5) - 2, 1>>

\* the row of the INSERT statement of syncFile
ChunkRow(filePath, fileHash, fileType, chunk, embedding) ==
  [file_path   |-> filePath,
   file_hash   |-> fileHash,
   file_type   |-> fileType,
   chunk_index |-> chunk.index,
   chunk_hash  |-> chunk.hash,
   content     |-> chunk.content,
   token_count |-> chunk.tokenCount,
   embedding   |-> embedding,
   section     |-> IF chunk.section = "" THEN "null" ELSE chunk.section,
   language    |-> getLanguage(fileType)]

\* The table cortex_file_chunks is a bag of rows.
\* INSERT INTO cortex_file_chunks ... VALUES (row)
InsertRow(table, row) == table (+) SetToBag({row})

\* a DELETE that removes nothing
DeletePathNothing(table, filePath) == table

\* DELETE FROM cortex_file_chunks WHERE file_path = filePath
DeletePath(table, filePath) ==
  [r \in {x \in DOMAIN table : x.file_path # filePath} |-> table[r]]

\* the rows of one path, as a bag
RowsOf(table, filePath) ==
  [r \in {x \in DOMAIN table : x.file_path = filePath} |-> table[r]]

\* SELECT file_hash ... WHERE file_path = filePath LIMIT 1: the possible
\* answers, a list of at most one file_hash (no ORDER BY: any row of the path)
SelectFileHash(table, filePath) ==
  IF DOMAIN RowsOf(table, filePath) = {} THEN {<<>>}
  ELSE {<<r.file_hash>> : r \in DOMAIN RowsOf(table, filePath)}

\* an unchanged check that does not look at force
IsUnchangedIgnoringForce(force, existing, fileHash) ==
  Len(existing) > 0 /\ existing[1] = fileHash

\* line 62: !force && existing.length > 0 && existing[0].file_hash === fileHash
IsUnchanged(force, existing, fileHash) ==
  ~force /\ Len(existing) > 0 /\ existing[1] = fileHash

RECURSIVE NextChunk(_, _)
\* the for loop's next chunk to embed from position k on: oversized chunks
\* are passed over (continue); Len(chunks) + 1 when the loop is over
NextChunk(chunks, k) ==
  IF k > Len(chunks) THEN k
  ELSE IF IsOversized(chunks[k]) THEN NextChunk(chunks, k + 1)
  ELSE k

\* syncFiles, lines 100-107: the initial SyncResult
EmptySyncResult ==
  [filesProcessed |-> 0, chunksCreated |-> 0, chunksUpdated |-> 0,
   chunksSkipped |-> 0, files |-> <<>>, errors |-> <<>>]

\* scripts/sync.ts, lines 90-93: the counters of the db:sync loop
EmptyScriptResult ==
  [processed |-> 0, skippedFiles |-> 0, errors |-> 0, failedFiles |-> <<>>]

\* an accounting that does not count the skipped files
SyncFilesAccountDroppingSkipped(result, filePath, out) ==
  IF out.kind = "failed"
  THEN [result EXCEPT !.errors = Append(@, <<filePath, out.message>>)]
  ELSE IF out.kind = "skipped"
  THEN result
  ELSE [result EXCEPT !.filesProcessed = @ + 1,
                      !.chunksCreated = @ + out.chunks,
                      !.files = Append(@, filePath)]

\* syncFiles, lines 111-123: the accounting of one file's outcome; out is
\* [kind, chunks, message], kind "ok", "skipped" or "failed"
SyncFilesAccount(result, filePath, out) ==
  IF out.kind = "failed"
  THEN [result EXCEPT !.errors = Append(@, <<filePath, out.message>>)]
  ELSE IF out.kind = "skipped"
  THEN [result EXCEPT !.chunksSkipped = @ + 1]
  ELSE [result EXCEPT !.filesProcessed = @ + 1,
                      !.chunksCreated = @ + out.chunks,
                      !.files = Append(@, filePath)]

\* scripts/sync.ts, lines 107-120: the same for the db:sync loop
ScriptAccount(result, filePath, out) ==
  IF out.kind = "failed"
  THEN [result EXCEPT !.errors = @ + 1,
                      !.failedFiles = Append(@, <<filePath, out.message>>)]
  ELSE IF out.kind = "skipped"
  THEN [result EXCEPT !.skippedFiles = @ + 1]
  ELSE [result EXCEPT !.processed = @ + 1]

\* a loop that a failing file ends
NextFileAborting(i, out) == IF out.kind = "failed" THEN i + 1000 ELSE i + 1

\* a loop that steps over the file that follows a failed one
NextFileSkipping(i, out) == IF out.kind = "failed" THEN i + 2 ELSE i + 1

\* the position of the next file of the loop after file i ended with out:
\* both loops catch the error and go on
NextFile(i, out) == i + 1

\* ------------------------------------------------------------ the model

X(n) == << <<"x", n>> >>

MdPath == <<"docs/a", "md">>
TsPath == <<"src/b", "ts">>
Paths == {MdPath, TsPath}

Missing == << <<"missing">> >>

\* file contents of the model
EmptyDoc == << Body(<<>>) >>
SmallDoc == << Body(X(10)) >>
ExactDoc == << Body(X(OVERSIZE_LIMIT)) >>
OverDoc  == << Body(X(OVERSIZE_LIMIT + 1)) >>

ContentsOf(p) ==
  IF p = MdPath THEN {EmptyDoc, SmallDoc, ExactDoc, OverDoc}
  ELSE {SmallDoc}

\* the longest list of paths of one batch
MaxBatch == 2

BatchLists == UNION {[1..n -> Paths] : n \in 1..MaxBatch}

NoBatch == [caller |-> "none"]
NoCall  == [filePath |-> <<>>]
NoRet   == [kind |-> "none"]
NoReply == [tool |-> "none"]
NoExit  == -1

VARIABLES
  files,   \* the working tree: path -> content, or Missing
  store,   \* the table cortex_file_chunks
  pc,      \* where the sync process is: "idle", the await syncFile is at, or
           \* "report" when a batch has ended and its outcome is being reported
  batch,   \* the running (or last) batch: caller, paths, force, i, result
  call,    \* the locals of the running syncFile call
  ret,     \* the outcome of the syncFile call that has just ended
  synced,  \* path -> the content of its last sync without error, while unchanged
  reply,   \* the answer of the tool call that has just been served
  exit     \* the exit code of the script that has just ended

VARIABLES
  chunker, \* a call of chunkDocument on its own: its inputs and its locals
  client,  \* a call of the embedding client's embed(texts): its locals
  writers  \* sync processes running side by side: the locals of each

\* the pipeline's process of the first block, and what runs apart from it
syncVars == <<files, store, pc, batch, call, ret, synced, reply, exit>>
others == <<chunker, client, writers>>

vars == <<files, store, pc, batch, call, ret, synced, reply, exit,
          chunker, client, writers>>

NoChunker == [pc |-> "none"]
NoClient  == [pc |-> "none"]
NoWriters == <<>>

NotSynced == << <<"none">> >>

Init ==
  /\ files = [p \in Paths |-> Missing]
  /\ store = EmptyBag
  /\ pc = "idle"
  /\ batch = NoBatch
  /\ call = NoCall
  /\ ret = NoRet
  /\ synced = [p \in Paths |-> NotSynced]
  /\ reply = NoReply
  /\ exit = NoExit
  /\ chunker = NoChunker
  /\ client = NoClient
  /\ writers = NoWriters

\* syncFile entered: the locals before the first await (lines 48-52)
NewCall(filePath, force, table) ==
  [filePath |-> filePath,
   force    |-> force,
   fileType |-> getFileType(filePath),
   content  |-> Missing,
   fileHash |-> <<>>,
   existing |-> <<>>,
   chunks   |-> <<>>,
   chunked  |-> FALSE,     \* chunkDocument has been called
   k        |-> 0,
   created  |-> 0,
   embedding |-> <<>>,
   pre      |-> table,     \* the table when the call began
   stmts    |-> <<>>,      \* DELETE and INSERT statements executed
   sent     |-> <<>>]      \* chunk indexes sent to the embedding service

NewBatch(caller, paths, force, status) ==
  [caller   |-> caller,
   paths    |-> paths,
   force    |-> force,
   i        |-> 1,
   result   |-> IF caller = "dbsync" THEN EmptyScriptResult ELSE EmptySyncResult,
   attempts |-> IF status = "running" THEN <<paths[1]>> ELSE <<>>,  \* syncFile calls made
   outs     |-> <<>>,                                               \* and how each ended
   status   |-> status]

\* the exit code with which the caller's script ends after its loop:
\* git-sync ends with process.exit(0) on every path (lines 292 and 296),
\* db:sync's main returns; the MCP tool is no process of its own
ExitAfterLoop(caller, result) ==
  IF caller = "hook" THEN 0
  ELSE IF caller = "dbsync" THEN 0
  ELSE NoExit

\* syncFile ends (return or throw) with locals c and outcome out, the table
\* being `table`: the caller's loop accounts for it and goes on; lines 111-123
\* of syncFiles, lines 107-120 of scripts/sync.ts
Return(c, out, table) ==
  LET res == IF batch.caller = "dbsync"
             THEN ScriptAccount(batch.result, c.filePath, out)
             ELSE SyncFilesAccount(batch.result, c.filePath, out)
      j   == NextFile(batch.i, out)
      over == j > Len(batch.paths)
  IN /\ ret' = [kind |-> out.kind, chunks |-> out.chunks, message |-> out.message,
                at |-> pc, filePath |-> c.filePath, force |-> c.force,
                fileType |-> c.fileType, content |-> c.content,
                fileHash |-> c.fileHash, pre |-> c.pre, stmts |-> c.stmts,
                sent |-> c.sent, chunked |-> c.chunked,
                syncedBefore |-> synced[c.filePath]]
     /\ synced' = [synced EXCEPT ![c.filePath] =
                     IF out.kind = "failed" THEN NotSynced ELSE c.content]
     /\ batch' = [batch EXCEPT !.i = j, !.result = res,
                               !.attempts = IF over THEN @ ELSE Append(@, batch.paths[j]),
                               !.outs = Append(@, out.kind),
                               !.status = IF over THEN "done" ELSE @]
     /\ pc' = IF over THEN "report" ELSE "read"
     /\ call' = IF over THEN NoCall ELSE NewCall(batch.paths[j], batch.force, table)
     /\ exit' = IF over THEN ExitAfterLoop(batch.caller, res) ELSE exit

Failed(message) == [kind |-> "failed", chunks |-> 0, message |-> message]
Skipped == [kind |-> "skipped", chunks |-> 0, message |-> ""]
Done(created) == [kind |-> "ok", chunks |-> created, message |-> ""]

\* line 52: await fs.readFile(fullPath, 'utf-8'), and line 53
ReadFile ==
  /\ UNCHANGED others
  /\ pc = "read" /\ reply = NoReply
  /\ IF files[call.filePath] = Missing
     THEN Return(call, Failed("ENOENT"), store)
     ELSE /\ call' = [call EXCEPT !.content = files[call.filePath],
                                  !.fileHash = hashFile(files[call.filePath])]
          /\ pc' = "lookup"
          /\ ret' = NoRet
          /\ UNCHANGED <<batch, synced, exit>>
  /\ UNCHANGED <<files, store, reply>>

\* a syncFile that deletes the old rows before the unchanged check
LookupDeletingFirst ==
  /\ UNCHANGED others
  /\ pc = "lookup" /\ reply = NoReply
  /\ \E existing \in SelectFileHash(store, call.filePath) :
       LET c == [call EXCEPT !.existing = existing, !.stmts = Append(@, "DELETE")] IN
       /\ store' = DeletePath(store, call.filePath)
       /\ IF IsUnchanged(call.force, existing, call.fileHash)
          THEN Return(c, Skipped, store')
          ELSE /\ call' = c
               /\ pc' = "delete"
               /\ UNCHANGED <<batch, ret, synced, exit>>
  /\ UNCHANGED <<files, reply>>

\* a syncFile whose failed lookup has already deleted the old rows
LookupDeletingOnFailure ==
  /\ UNCHANGED others
  /\ pc = "lookup" /\ reply = NoReply
  /\ \/ /\ store' = DeletePath(store, call.filePath)
        /\ Return([call EXCEPT !.stmts = Append(@, "DELETE")], Failed("db error"), store')
     \/ /\ \E existing \in SelectFileHash(store, call.filePath) :
             IF IsUnchanged(call.force, existing, call.fileHash)
             THEN Return(call, Skipped, store)
             ELSE /\ call' = [call EXCEPT !.existing = existing]
                  /\ pc' = "delete"
                  /\ UNCHANGED <<batch, ret, synced, exit>>
        /\ UNCHANGED store
  /\ UNCHANGED <<files, reply>>

\* lines 56-64: the fingerprint lookup and the unchanged check; on to the
\* DELETE of line 67 when the file is not skipped
Lookup ==
  /\ UNCHANGED others
  /\ pc = "lookup" /\ reply = NoReply
  /\ \/ Return(call, Failed("db error"), store)
     \/ \E existing \in SelectFileHash(store, call.filePath) :
          IF IsUnchanged(call.force, existing, call.fileHash)
          THEN Return(call, Skipped, store)
          ELSE /\ call' = [call EXCEPT !.existing = existing]
               /\ pc' = "delete"
               /\ UNCHANGED <<batch, ret, synced, exit>>
  /\ UNCHANGED <<files, store, reply>>

\* the loop of lines 74-77 reaches chunk k: the embedding request for it is
\* sent, or the loop is over and syncFile returns (line 93)
Loop(c, k, table) ==
  IF k > Len(c.chunks)
  THEN Return(c, Done(c.created), table)
  ELSE /\ call' = [c EXCEPT !.k = k, !.sent = Append(@, c.chunks[k].index)]
       /\ pc' = "embed"
       /\ UNCHANGED <<batch, ret, synced, exit>>

\* line 67: the DELETE of the path's rows, then line 70 and the loop's start
DeleteOld ==
  /\ UNCHANGED others
  /\ pc = "delete" /\ reply = NoReply
  /\ \/ /\ Return(call, Failed("db error"), store)
        /\ UNCHANGED store
     \/ LET table  == DeletePath(store, call.filePath)
            chunks == chunkDocument(call.filePath, call.content, call.fileType)
            c      == [call EXCEPT !.chunks = chunks, !.chunked = TRUE,
                                   !.stmts = Append(@, "DELETE")]
        IN /\ store' = table
           /\ Loop(c, NextChunk(chunks, 1), table)
  /\ UNCHANGED <<files, reply>>

\* a syncFile that sends a failed embedding request once more
EmbedRetrying ==
  /\ UNCHANGED others
  /\ pc = "embed" /\ reply = NoReply
  /\ \/ IF Len(call.sent) <= Len(call.stmts)
        THEN /\ call' = [call EXCEPT !.sent = Append(@, call.chunks[call.k].index)]
             /\ UNCHANGED <<pc, batch, ret, synced, exit>>
        ELSE Return(call, Failed("Ollama error"), store)
     \/ /\ call' = [call EXCEPT !.embedding = OllamaEmbedding(call.chunks[call.k].content)]
        /\ pc' = "insert"
        /\ UNCHANGED <<batch, ret, synced, exit>>
  /\ UNCHANGED <<files, store, reply>>

\* line 77: the answer of getEmbedding (lines 29-42), then the INSERT is issued
Embed ==
  /\ UNCHANGED others
  /\ pc = "embed" /\ reply = NoReply
  /\ \/ Return(call, Failed("Ollama error"), store)
     \/ /\ call' = [call EXCEPT !.embedding = OllamaEmbedding(call.chunks[call.k].content)]
        /\ pc' = "insert"
        /\ UNCHANGED <<batch, ret, synced, exit>>
  /\ UNCHANGED <<files, store, reply>>

\* lines 80-90: the INSERT of chunk k, created++, and the loop's next round
Insert ==
  /\ UNCHANGED others
  /\ pc = "insert" /\ reply = NoReply
  /\ \/ /\ Return(call, Failed("db error"), store)
        /\ UNCHANGED store
     \/ LET row   == ChunkRow(call.filePath, call.fileHash, call.fileType,
                              call.chunks[call.k], call.embedding)
            table == InsertRow(store, row)
            c     == [call EXCEPT !.created = @ + 1, !.stmts = Append(@, "INSERT")]
        IN /\ store' = table
           /\ Loop(c, NextChunk(call.chunks, call.k + 1), table)
  /\ UNCHANGED <<files, reply>>

\* ------------------------------------------------------------ entry points

Range(f) == {f[i] : i \in DOMAIN f}

Ended(caller, status, code) ==
  /\ batch' = NewBatch(caller, <<>>, FALSE, status)
  /\ exit' = code
  /\ pc' = "report"
  /\ UNCHANGED call

Started(caller, paths, force) ==
  /\ batch' = NewBatch(caller, paths, force, "running")
  /\ pc' = "read"
  /\ call' = NewCall(paths[1], force, store)
  /\ exit' = NoExit

\* tools/sync.ts, syncTool: cortex_sync with a list of files (or the collected
\* files of the workspace) calls syncFiles(filesToSync, force)
StartSyncTool(paths, force) ==
  /\ UNCHANGED others
  /\ pc = "idle" /\ reply = NoReply
  /\ Started("tool", paths, force)
  /\ ret' = NoRet
  /\ UNCHANGED <<files, store, synced, reply>>

\* scripts/sync.ts, main: the service checks (exit 1), the collected files
\* (exit 0 when there is none), then the loop
StartDbSync(paths, force, dbOk, embedOk) ==
  /\ UNCHANGED others
  /\ pc = "idle" /\ reply = NoReply
  /\ IF ~dbOk \/ ~embedOk THEN Ended("dbsync", "unavailable", 1)
     ELSE IF \A p \in Paths : files[p] = Missing THEN Ended("dbsync", "nothing", 0)
     ELSE /\ \A i \in DOMAIN paths : files[paths[i]] # Missing
          /\ \A i, j \in DOMAIN paths : i # j => paths[i] # paths[j]
          /\ Started("dbsync", paths, force)
  /\ ret' = NoRet
  /\ UNCHANGED <<files, store, synced, reply>>

\* git-sync main, lines 244-270: the staged files that no ignore pattern
\* matches and that exist
FilesToSync(staged, ignored) ==
  SelectSeq(staged, LAMBDA f : f \notin ignored /\ files[f] # Missing)

\* git-sync main up to the call of syncFiles (lines 201-280): every way out
\* before the sync is process.exit(0), the catch of line 297 included
StartHook(staged, ignored, dbOk, embedOk, throws) ==
  /\ UNCHANGED others
  /\ pc = "idle" /\ reply = NoReply
  /\ IF ~dbOk \/ ~embedOk THEN Ended("hook", "unavailable", 0)
     ELSE IF throws THEN Ended("hook", "threw", 0)
     ELSE IF FilesToSync(staged, ignored) = <<>> THEN Ended("hook", "nothing", 0)
     ELSE Started("hook", FilesToSync(staged, ignored), FALSE)
  /\ ret' = NoRet
  /\ UNCHANGED <<files, store, synced, reply>>

\* tools/delete.ts, deleteTool; filesArg is the list `files` (<<>> when absent);
\* WORKSPACE_ROOT is unset, so the paths are used as given (lines 41-48)
DeleteTool(filesArg, confirm) ==
  /\ UNCHANGED others
  /\ pc = "idle" /\ reply = NoReply
  /\ IF ~confirm
     THEN /\ reply' = [tool |-> "delete", text |-> "requires confirmation"]
          /\ UNCHANGED store
     ELSE \/ /\ reply' = [tool |-> "delete", text |-> "Deletion failed"]
             /\ UNCHANGED store
          \/ IF filesArg # <<>>
             THEN /\ store' = [r \in {x \in DOMAIN store : x.file_path \notin Range(filesArg)}
                                  |-> store[r]]
                  /\ reply' = [tool |-> "delete", text |-> "Deleted embeddings"]
             ELSE /\ store' = EmptyBag
                  /\ \/ reply' = [tool |-> "delete", text |-> "All data deleted"]
                     \/ reply' = [tool |-> "delete", text |-> "Deletion failed"]
  /\ ret' = NoRet
  /\ synced' = [p \in Paths |-> NotSynced]
  /\ UNCHANGED <<files, pc, batch, call, exit>>

\* ------------------------------------------------------------ retriever

\* the rows of the table, one cell per copy
Cells(table) == UNION {{<<r, n>> : n \in 1..table[r]} : r \in DOMAIN table}

Dot(a, b) == a[1] * b[1] + a[2] * b[2]

\* the cosine of the angle of q and e is dot / sqrt(norm2); pgvector's <=> is
\* one minus it
Cosine(q, e) == [dot |-> Dot(q, e), norm2 |-> Dot(q, q) * Dot(e, e)]

CosLess(a, b) ==
  IF a.dot < 0 /\ b.dot >= 0 THEN TRUE
  ELSE IF a.dot >= 0 /\ b.dot < 0 THEN FALSE
  ELSE IF a.dot >= 0 THEN a.dot * a.dot * b.norm2 < b.dot * b.dot * a.norm2
  ELSE a.dot * a.dot * b.norm2 > b.dot * b.dot * a.norm2

\* WHERE file_type = ANY(fileTypeFilter), when the filter is given and not empty
Candidates(table, filter) ==
  {c \in Cells(table) : filter = <<>> \/ c[1].file_type \in Range(filter)}

\* a ranking that takes the rows in any order
NearestAny(S, q) == S

\* the cells of S at the least distance from q
Nearest(S, q) ==
  {c \in S : \A d \in S : ~CosLess(Cosine(q, c[1].embedding), Cosine(q, d[1].embedding))}

RECURSIVE Ranked(_, _, _)
\* ORDER BY embedding <=> q LIMIT k: the possible answers (ties in any order)
Ranked(S, q, k) ==
  IF S = {} \/ k = 0 THEN {<<>>}
  ELSE UNION {{<<m>> \o rest : rest \in Ranked(S \ {m}, q, k - 1)} : m \in Nearest(S, q)}

\* lines 144-151: the RetrievalResult of a row
ResultOf(cell, q) ==
  [filePath   |-> cell[1].file_path,
   content    |-> cell[1].content,
   section    |-> cell[1].section,
   similarity |-> Cosine(q, cell[1].embedding),
   chunkIndex |-> cell[1].chunk_index,
   fileType   |-> cell[1].file_type]

QueryText == X(4)
DefaultTopK == 10

\* the <<topK, fileTypeFilter>> of the queries of the model
QueryArgs == {<<DefaultTopK, <<>>>>, <<1, <<"md">>>>}

\* a retriever that empties the table when the search fails
QueryClearing(topK, filter) ==
  /\ UNCHANGED others
  /\ reply = NoReply
  /\ \/ /\ reply' = [tool |-> "query", failed |-> TRUE, results |-> <<>>]
        /\ store' = EmptyBag
     \/ /\ \E rows \in Ranked(Candidates(store, filter), OllamaEmbedding(QueryText), topK) :
             reply' = [tool |-> "query", failed |-> FALSE, topK |-> topK, filter |-> filter,
                       results |-> [i \in DOMAIN rows |->
                                      ResultOf(rows[i], OllamaEmbedding(QueryText))]]
        /\ UNCHANGED store
  /\ UNCHANGED <<files, pc, batch, call, ret, synced, exit>>

\* db.ts, queryVectorDatabase: the query embedding, the ranked SELECT, the
\* mapping of the rows; any failure gives []
Query(topK, filter) ==
  /\ UNCHANGED others
  /\ reply = NoReply
  /\ \/ reply' = [tool |-> "query", failed |-> TRUE, results |-> <<>>]
     \/ \E rows \in Ranked(Candidates(store, filter), OllamaEmbedding(QueryText), topK) :
          reply' = [tool |-> "query", failed |-> FALSE, topK |-> topK, filter |-> filter,
                    results |-> [i \in DOMAIN rows |->
                                   ResultOf(rows[i], OllamaEmbedding(QueryText))]]
  /\ UNCHANGED <<files, store, pc, batch, call, ret, synced, exit>>

\* the batch's outcome has been reported (the tool's summary, the script's
\* output and exit code): the process is idle again
Report ==
  /\ UNCHANGED others
  /\ pc = "report" /\ reply = NoReply
  /\ pc' = "idle"
  /\ batch' = NoBatch
  /\ ret' = NoRet
  /\ exit' = NoExit
  /\ UNCHANGED <<files, store, call, synced, reply>>

\* the answer is handed to the caller
Forget ==
  /\ UNCHANGED others
  /\ reply # NoReply
  /\ reply' = NoReply
  /\ UNCHANGED <<files, store, pc, batch, call, ret, synced, exit>>

\* The working tree changes: a file is written, created or removed.  syncFile
\* reads a file once (line 52) and nothing else of the pipeline looks at the
\* tree, so the changes are taken between the batches.
EditFile(p, c) ==
  /\ UNCHANGED others
  /\ pc = "idle" /\ reply = NoReply
  /\ c # files[p]
  /\ files' = [files EXCEPT ![p] = c]
  /\ synced' = [synced EXCEPT ![p] = NotSynced]
  /\ UNCHANGED <<store, pc, batch, call, ret, reply, exit>>

Next ==
  \/ \E paths \in BatchLists, force \in BOOLEAN : StartSyncTool(paths, force)
  \/ \E paths \in BatchLists, force, dbOk, embedOk \in BOOLEAN :
       StartDbSync(paths, force, dbOk, embedOk)
  \/ \E staged \in BatchLists, ignored \in SUBSET Paths, dbOk, embedOk, throws \in BOOLEAN :
       StartHook(staged, ignored, dbOk, embedOk, throws)
  \/ ReadFile
  \/ Lookup
  \/ DeleteOld
  \/ Embed
  \/ Insert
  \/ \E filesArg \in {<<>>} \cup BatchLists, confirm \in BOOLEAN : DeleteTool(filesArg, confirm)
  \/ \E a \in QueryArgs : Query(a[1], a[2])
  \/ Report
  \/ Forget
  \/ \E p \in Paths : \E c \in ContentsOf(p) \cup {Missing} : EditFile(p, c)

Spec == Init /\ [][Next]_vars

\* ------------------------------------------- the chunker, step by step

S(n) == << <<"s", n>> >>

\* paths of every detected type and of two extensions getFileType does not know
PyPath == <<"tools/e", "py">>
TxtPath == <<"notes/f", "txt">>
ChunkPaths == {MdPath, TsPath, <<"src/c", "tsx">>, <<"cfg/d", "json">>, PyPath, TxtPath}

\* a blank file, and blank text longer than a chunk
BlankDoc == << Body(S(1)) >>
BlankLongDoc == << Body(S(MAX_CHUNK_SIZE + 1)) >>

\* text of one run, around the overlap and the maximum size
RunDocs ==
  {<< Body(X(n)) >> : n \in {OVERLAP_SIZE, OVERLAP_SIZE + 1, MAX_CHUNK_SIZE,
                             MAX_CHUNK_SIZE + 1, MAX_CHUNK_SIZE + 476}}

\* "# A\nxxxxxxxxxx\n# B\nxxxxxxxxxxxxxxxxxxxx": two short headed sections
TwoShortDoc ==
  << Body(<<>>), Heading(1, "A", 1), Body(<< <<"s", 1>>, <<"x", 10>>, <<"s", 1>> >>),
     Heading(1, "B", 1), Body(<< <<"s", 1>>, <<"x", 20>> >>) >>

\* two "##" sections of 1500 and 200 characters
TwoLongDoc ==
  << Body(<<>>), Heading(2, "A", 1),
     Body(<< <<"s", 1>>, <<"x", MAX_CHUNK_SIZE + 474>>, <<"s", 1>> >>),
     Heading(2, "B", 1), Body(<< <<"s", 1>>, <<"x", 199>> >>) >>

ChunkDocs == {EmptyDoc, SmallDoc, BlankDoc, BlankLongDoc, TwoShortDoc, TwoLongDoc} \cup RunDocs

\* syncFile has read a file: the inputs of getFileType and chunkDocument
NewChunker(filePath, content) ==
  [pc             |-> "call",
   filePath       |-> filePath,
   content        |-> content,
   fileType       |-> "",
   strategy       |-> "",      \* "headings" (chunkMarkdown) or "window" (chunkPlainText)
   sections       |-> <<>>,    \* chunkMarkdown: the parts still to visit
   currentSection |-> "",
   currentContent |-> <<>>,
   under          |-> {},      \* the headings whose body text currentContent has taken in
   text           |-> <<>>,    \* chunkPlainText: content
   start          |-> 0,
   chunkIndex     |-> 0,
   chunks         |-> <<>>,
   origins        |-> <<>>,    \* per chunk, the headings its body text stood under
   end            |-> 0,       \* chunkPlainText: the end of the last window
   since          |-> 0,       \* chunkMarkdown: characters added since the last push
   fresh          |-> <<>>]    \* per chunk, its characters past the end of the chunk before

ChunkInit ==
  /\ files = [p \in Paths |-> Missing]
  /\ store = EmptyBag
  /\ pc = "idle"
  /\ batch = NoBatch
  /\ call = NoCall
  /\ ret = NoRet
  /\ synced = [p \in Paths |-> NotSynced]
  /\ reply = NoReply
  /\ exit = NoExit
  /\ chunker \in {NewChunker(p, c) : p \in ChunkPaths, c \in ChunkDocs}
  /\ client = NoClient
  /\ writers = NoWriters

\* syncFile line 50 (getFileType) and line 70 (chunkDocument), and the
\* dispatch of chunkDocument, lines 253-259
ChunkDocument ==
  /\ chunker.pc = "call"
  /\ LET fileType == getFileType(chunker.filePath) IN
     chunker' =
       IF fileType = "md"
       THEN [chunker EXCEPT !.pc = "md", !.fileType = fileType, !.strategy = "headings",
                            !.sections = chunker.content]
       ELSE [chunker EXCEPT !.pc = "plain", !.fileType = fileType, !.strategy = "window",
                            !.text = Flatten(chunker.content)]
  /\ UNCHANGED <<syncVars, client, writers>>

\* chunkMarkdown: one round of the for loop (lines 270-281), or, the parts
\* being visited, the final push and the return (lines 283-287)
MarkdownStep ==
  /\ chunker.pc = "md"
  /\ IF chunker.sections = <<>>
     THEN chunker' =
            IF TTrim(chunker.currentContent) # <<>>
            THEN [chunker EXCEPT
                    !.pc = "done",
                    !.chunks = Append(@, createChunk(TTrim(chunker.currentContent),
                                                     chunker.chunkIndex,
                                                     chunker.currentSection)),
                    !.origins = Append(@, chunker.under),
                    !.fresh = Append(@, chunker.since)]
            ELSE [chunker EXCEPT !.pc = "done"]
     ELSE LET part == chunker.sections[1] IN
          IF IsHeading(part)
          THEN chunker' = [chunker EXCEPT !.sections = Tail(@), !.currentSection = part[3]]
          ELSE LET cc    == TConcat(chunker.currentContent, part[2])
                   taken == chunker.under \cup
                              (IF TTrim(part[2]) # <<>> THEN {chunker.currentSection} ELSE {})
               IN chunker' =
                    IF TLen(cc) > MAX_CHUNK_SIZE
                    THEN [chunker EXCEPT
                            !.sections = Tail(@),
                            !.chunks = Append(@, createChunk(TTrim(cc), chunker.chunkIndex,
                                                             chunker.currentSection)),
                            !.origins = Append(@, taken),
                            !.fresh = Append(@, chunker.since + TLen(part[2])),
                            !.since = 0,
                            !.chunkIndex = @ + 1,
                            !.currentContent = TSliceLast(cc, OVERLAP_SIZE),
                            !.under = {}]
                    ELSE [chunker EXCEPT !.sections = Tail(@), !.currentContent = cc,
                                         !.since = @ + TLen(part[2]),
                                         !.under = taken]
  /\ UNCHANGED <<syncVars, client, writers>>

\* a loop that never takes the break
WouldNotAdvanceNever(nextStart, start) == FALSE

\* chunkPlainText line 308: nextStart <= start
WouldNotAdvance(nextStart, start) == nextStart <= start

\* chunkPlainText: the loop test and one round of the while loop (lines
\* 300-312), or the return
PlainStep ==
  /\ chunker.pc = "plain"
  /\ IF ~(chunker.start < TLen(chunker.text))
     THEN chunker' = [chunker EXCEPT !.pc = "done"]
     ELSE LET end       == Min(chunker.start + MAX_CHUNK_SIZE, TLen(chunker.text))
              pushed    == Append(chunker.chunks,
                                  createChunk(TSlice(chunker.text, chunker.start, end),
                                              chunker.chunkIndex, ""))
              nextStart == end - OVERLAP_SIZE
          IN chunker' =
               IF WouldNotAdvance(nextStart, chunker.start)
               THEN [chunker EXCEPT !.pc = "done", !.chunks = pushed,
                                    !.origins = Append(@, {}), !.chunkIndex = @ + 1,
                                    !.fresh = Append(@, end - chunker.end), !.end = end]
               ELSE [chunker EXCEPT !.chunks = pushed, !.origins = Append(@, {}),
                                    !.chunkIndex = @ + 1, !.start = nextStart,
                                    !.fresh = Append(@, end - chunker.end), !.end = end]
  /\ UNCHANGED <<syncVars, client, writers>>

ChunkNext ==
  \/ ChunkDocument
  \/ MarkdownStep
  \/ PlainStep

SpecChunk == ChunkInit /\ [][ChunkNext]_vars

\* a call that has begun is carried on: nothing else runs in chunkDocument
SpecChunkLive == SpecChunk /\ WF_vars(ChunkNext)

\* ------------------------------------------- sync processes side by side

\* Every caller of syncFile runs it on the one table: the MCP server (a
\* cortex_sync request dispatched by the CallToolRequestSchema handler), the
\* git-sync hook and the db:sync script are processes of their own, and no
\* statement of syncFile or syncFiles takes a lock or opens a transaction.
MaxWriters == 2

Writers == 1..MaxWriters

IdleWriter == [pc |-> "idle"]

\* file contents of one chunk and of two chunks
ConcContentsOf(p) == IF p = MdPath THEN {SmallDoc, ExactDoc} ELSE {SmallDoc}

ConcInit ==
  /\ files = [p \in Paths |-> SmallDoc]
  /\ store = EmptyBag
  /\ pc = "idle"
  /\ batch = NoBatch
  /\ call = NoCall
  /\ ret = NoRet
  /\ synced = [p \in Paths |-> NotSynced]
  /\ reply = NoReply
  /\ exit = NoExit
  /\ chunker = NoChunker
  /\ client = NoClient
  /\ writers = [w \in Writers |-> IdleWriter]

ConcFrame == UNCHANGED <<pc, batch, call, ret, synced, reply, exit, chunker, client>>

\* the (file_path, chunk_index) of the row is in the table already: the
\* unique constraint on the pair rejects the INSERT
KeyTaken(table, row) ==
  \E r \in DOMAIN table : r.file_path = row.file_path /\ r.chunk_index = row.chunk_index

\* syncFiles calls syncFile(filePath, force): lines 48-50
WStart(w, filePath, force) ==
  /\ writers[w] = IdleWriter
  /\ writers' = [writers EXCEPT ![w] =
                   [pc |-> "read", filePath |-> filePath, force |-> force,
                    fileType |-> getFileType(filePath), content |-> Missing,
                    fileHash |-> <<>>, chunks |-> <<>>, k |-> 0, embedding |-> <<>>]]
  /\ UNCHANGED <<files, store>>
  /\ ConcFrame

\* lines 52-53
WRead(w) ==
  /\ writers[w].pc = "read"
  /\ LET c == writers[w] IN
     writers' = [writers EXCEPT ![w] =
                   IF files[c.filePath] = Missing THEN IdleWriter
                   ELSE [c EXCEPT !.pc = "lookup", !.content = files[c.filePath],
                                  !.fileHash = hashFile(files[c.filePath])]]
  /\ UNCHANGED <<files, store>>
  /\ ConcFrame

\* lines 56-64
WLookup(w) ==
  /\ writers[w].pc = "lookup"
  /\ \E existing \in SelectFileHash(store, writers[w].filePath) :
       LET c == writers[w] IN
       writers' = [writers EXCEPT ![w] =
                     IF IsUnchanged(c.force, existing, c.fileHash) THEN IdleWriter
                     ELSE [c EXCEPT !.pc = "delete"]]
  /\ UNCHANGED <<files, store>>
  /\ ConcFrame

\* the loop of lines 74-77 reaches chunk k, or is over (line 93)
WLoop(c, k) ==
  IF k > Len(c.chunks) THEN IdleWriter ELSE [c EXCEPT !.pc = "embed", !.k = k]

\* lines 67-77
WDelete(w) ==
  /\ writers[w].pc = "delete"
  /\ store' = DeletePath(store, writers[w].filePath)
  /\ LET c      == writers[w]
         chunks == chunkDocument(c.filePath, c.content, c.fileType)
     IN writers' = [writers EXCEPT ![w] =
                      WLoop([c EXCEPT !.chunks = chunks], NextChunk(chunks, 1))]
  /\ UNCHANGED files
  /\ ConcFrame

\* lines 77-78: getEmbedding answers or throws
WEmbed(w) ==
  /\ writers[w].pc = "embed"
  /\ \/ writers' = [writers EXCEPT ![w] = IdleWriter]
     \/ LET c == writers[w] IN
        writers' = [writers EXCEPT ![w] =
                      [c EXCEPT !.pc = "insert",
                                !.embedding = OllamaEmbedding(c.chunks[c.k].content)]]
  /\ UNCHANGED <<files, store>>
  /\ ConcFrame

\* lines 80-93: the INSERT of chunk k; a taken key makes it throw
WInsert(w) ==
  /\ writers[w].pc = "insert"
  /\ LET c   == writers[w]
         row == ChunkRow(c.filePath, c.fileHash, c.fileType, c.chunks[c.k], c.embedding)
     IN IF KeyTaken(store, row)
        THEN /\ writers' = [writers EXCEPT ![w] = IdleWriter]
             /\ UNCHANGED store
        ELSE /\ store' = InsertRow(store, row)
             /\ writers' = [writers EXCEPT ![w] = WLoop(c, NextChunk(c.chunks, c.k + 1))]
  /\ UNCHANGED files
  /\ ConcFrame

\* the working tree changes
WEdit(p, c) ==
  /\ c # files[p]
  /\ files' = [files EXCEPT ![p] = c]
  /\ UNCHANGED <<store, writers>>
  /\ ConcFrame

ConcNext ==
  \/ \E w \in Writers, p \in Paths, force \in BOOLEAN : WStart(w, p, force)
  \/ \E w \in Writers : WRead(w)
  \/ \E w \in Writers : WLookup(w)
  \/ \E w \in Writers : WDelete(w)
  \/ \E w \in Writers : WEmbed(w)
  \/ \E w \in Writers : WInsert(w)
  \/ \E p \in Paths : \E c \in ConcContentsOf(p) : WEdit(p, c)

SpecConc == ConcInit /\ [][ConcNext]_vars

\* ------------------------------------------- the embedding client

\* the longest list of texts of one embed call
MaxTexts == 3

\* texts with different embeddings
EmbedTexts == {X(1), X(2)}

TextLists == UNION {[1..n -> EmbedTexts] : n \in 0..MaxTexts}

\* what a request to /api/embeddings comes to: fetch rejects, a status that
\* is not ok, a body whose embedding is no array, or an embedding
Responses == {"rejected", "status", "invalid", "ok"}

NoResult == << <<"none">> >>

\* embed(texts) is entered
NewClient(texts) ==
  [pc         |-> "call",
   texts      |-> texts,
   i          |-> 0,        \* the text whose request is pending
   embeddings |-> <<>>,
   requests   |-> <<>>,     \* the prompts sent to the service
   responses  |-> <<>>,     \* what each request came to
   result     |-> NoResult, \* the list returned
   error      |-> ""]       \* the error thrown

EmbedInit ==
  /\ files = [p \in Paths |-> Missing]
  /\ store = EmptyBag
  /\ pc = "idle"
  /\ batch = NoBatch
  /\ call = NoCall
  /\ ret = NoRet
  /\ synced = [p \in Paths |-> NotSynced]
  /\ reply = NoReply
  /\ exit = NoExit
  /\ chunker = NoChunker
  /\ client \in {NewClient(texts) : texts \in TextLists}
  /\ writers = NoWriters

\* lines 59-62: the catch logs and throws the error again
Thrown(c, response, error) ==
  [c EXCEPT !.pc = "thrown", !.responses = Append(@, response), !.error = error]

\* the for loop goes on to text i (the request of line 31 is sent), or is
\* over: lines 54-58
EmbedLoop(c, i) ==
  IF i <= Len(c.texts)
  THEN [c EXCEPT !.pc = "fetch", !.i = i, !.requests = Append(@, c.texts[i])]
  ELSE IF Len(c.embeddings) # Len(c.texts)
  THEN [c EXCEPT !.pc = "thrown", !.error = "Embedding count mismatch"]
  ELSE [c EXCEPT !.pc = "returned", !.result = c.embeddings]

ZeroVector == <<0, 0>>

\* a client that puts a zero vector in the place of an invalid embedding
EmbedReplySubstituting(c, response) ==
  IF response = "rejected" THEN Thrown(c, response, "fetch failed")
  ELSE IF response = "status" THEN Thrown(c, response, "Embedding API error")
  ELSE IF response = "invalid"
  THEN EmbedLoop([c EXCEPT !.embeddings = Append(@, ZeroVector),
                           !.responses = Append(@, response)], c.i + 1)
  ELSE EmbedLoop([c EXCEPT !.embeddings = Append(@, OllamaEmbedding(c.texts[c.i])),
                           !.responses = Append(@, response)], c.i + 1)

\* lines 31-52: the answer to the request for text i
EmbedReply(c, response) ==
  IF response = "rejected" THEN Thrown(c, response, "fetch failed")
  ELSE IF response = "status" THEN Thrown(c, response, "Embedding API error")
  ELSE IF response = "invalid" THEN Thrown(c, response, "Invalid embedding response")
  ELSE EmbedLoop([c EXCEPT !.embeddings = Append(@, OllamaEmbedding(c.texts[c.i])),
                           !.responses = Append(@, response)], c.i + 1)

\* lines 21-31: embed is called; [] for no text, else the first request
EmbedCall ==
  /\ client.pc = "call"
  /\ client' = IF Len(client.texts) = 0
               THEN [client EXCEPT !.pc = "returned", !.result = <<>>]
               ELSE EmbedLoop(client, 1)
  /\ UNCHANGED <<syncVars, chunker, writers>>

\* the pending request is answered
EmbedFetch(response) ==
  /\ client.pc = "fetch"
  /\ client' = EmbedReply(client, response)
  /\ UNCHANGED <<syncVars, chunker, writers>>

EmbedNext ==
  \/ EmbedCall
  \/ \E response \in Responses : EmbedFetch(response)

SpecEmbed == EmbedInit /\ [][EmbedNext]_vars

\* ------------------------------------------------------------ properties

RECURSIVE Embeddable(_)
\* the chunks of a list that are not oversized, in order
Embeddable(chunks) ==
  IF chunks = <<>> THEN <<>>
  ELSE (IF TLen(chunks[1].content) > OVERSIZE_LIMIT THEN <<>> ELSE <<chunks[1]>>)
         \o Embeddable(Tail(chunks))

\* the complete chunk set of a content under a path: one row per chunk that is
\* not oversized, with the content's fingerprint
CompleteRows(filePath, content) ==
  LET fileType == getFileType(filePath)
      chunks   == Embeddable(chunkDocument(filePath, content, fileType))
  IN SetToBag({ChunkRow(filePath, hashFile(content), fileType, chunks[i],
                        OllamaEmbedding(chunks[i].content)) : i \in DOMAIN chunks})

\* the fingerprints stored for a path
Fingerprints(table, filePath) == {r.file_hash : r \in DOMAIN RowsOf(table, filePath)}

\* the rows of a bag of rows as <<chunk_index, content>> pairs
Keys(rows) == {<<r.chunk_index, r.content>> : r \in DOMAIN rows}

\* C1: when syncFile(path) has failed, the path's rows are exactly those from
\* before the call or exactly the complete new chunk set.
C1_FailedSyncLeavesOldOrNew ==
  ret.kind = "failed" =>
    \/ RowsOf(store, ret.filePath) = RowsOf(ret.pre, ret.filePath)
    \/ /\ ret.content # Missing
       /\ RowsOf(store, ret.filePath) = CompleteRows(ret.filePath, ret.content)

\* C2: a query that is answered while a re-sync of a path is between its
\* storage statements, and that is not cut by topK or the filter, shows for the
\* path either all old rows or all new rows.
C2_ReaderSeesOldOrNew ==
  ( /\ reply.tool = "query" /\ ~reply.failed
    /\ reply.filter = <<>> /\ Len(reply.results) < reply.topK
    /\ pc \in {"delete", "embed", "insert"}
    /\ RowsOf(call.pre, call.filePath) # EmptyBag )
  => LET seenRows == {<<reply.results[i].chunkIndex, reply.results[i].content>> :
                        i \in {j \in DOMAIN reply.results :
                                 reply.results[j].filePath = call.filePath}}
     IN \/ seenRows = Keys(RowsOf(call.pre, call.filePath))
        \/ seenRows = Keys(CompleteRows(call.filePath, call.content))

\* the call got as far as the unchanged check
PastLookup(r) ==
  \/ r.kind \in {"skipped", "ok"}
  \/ r.kind = "failed" /\ r.at \in {"delete", "embed", "insert"}

\* C3: syncFile returns skipped exactly when force is false and a fingerprint
\* is stored for the path and equals the hash of the content read; otherwise
\* it goes on to the DELETE, and a call that then returns has sent every
\* chunk that is not oversized to the embedding service.
C3_DecisionTable ==
  /\ PastLookup(ret) =>
       LET stored == Fingerprints(ret.pre, ret.filePath) IN
       /\ ret.kind = "skipped" <=>
            (~ret.force /\ stored # {} /\ \A h \in stored : h = hashFile(ret.content))
       /\ ret.kind = "ok" =>
            /\ ret.stmts # <<>> /\ ret.stmts[1] = "DELETE" /\ ret.chunked
            /\ ret.sent = [i \in DOMAIN Embeddable(chunkDocument(ret.filePath, ret.content, ret.fileType))
                             |-> Embeddable(chunkDocument(ret.filePath, ret.content, ret.fileType))[i].index]
  /\ pc \in {"delete", "embed", "insert"} =>
       ~(~call.force /\ Fingerprints(call.pre, call.filePath) = {hashFile(call.content)})

C3_Witness ==
  /\ ret.kind = "ok" /\ ret.force
  /\ Fingerprints(ret.pre, ret.filePath) = {hashFile(ret.content)}
  /\ Len(ret.sent) = 2

\* C4: a skipped call has sent no embedding request, has not chunked, has
\* executed no DELETE or INSERT, and the table is as it was before the call.
C4_SkipDoesNoWork ==
  ret.kind = "skipped" =>
    /\ ret.sent = <<>>
    /\ ret.stmts = <<>>
    /\ ~ret.chunked
    /\ store = ret.pre

C4_Witness ==
  /\ ret.kind = "skipped"
  /\ BagCardinality(RowsOf(store, ret.filePath)) = 2
  /\ store = ret.pre

\* C5: when the last sync of the path without error was of the same content
\* and the file has not changed since, a sync without force that does not fail
\* reports skipped with zero chunks, and syncFiles counts it as skipped.
C5_ResyncSkips ==
  ( /\ ret.kind \in {"ok", "skipped"}
    /\ ~ret.force
    /\ ret.syncedBefore = ret.content )
  => /\ ret.kind = "skipped"
     /\ ret.chunks = 0

\* C6: after a syncFile that returned without error and was not skipped, the
\* path's rows are exactly the chunks of the content read that are not
\* oversized, each with the content's fingerprint, as many as the returned
\* count; no row of an earlier version is left.
C6_ReplaceNotAppend ==
  ret.kind = "ok" =>
    /\ RowsOf(store, ret.filePath) = CompleteRows(ret.filePath, ret.content)
    /\ BagCardinality(RowsOf(store, ret.filePath)) = ret.chunks
    /\ \A r \in DOMAIN RowsOf(store, ret.filePath) : r.file_hash = hashFile(ret.content)

C6_Witness ==
  /\ ret.kind = "ok"
  /\ BagCardinality(RowsOf(ret.pre, ret.filePath)) = 2
  /\ BagCardinality(RowsOf(store, ret.filePath)) = 1
  /\ RowsOf(store, ret.filePath) = CompleteRows(ret.filePath, ret.content)

RECURSIVE FailedPaths(_, _)
\* the paths whose outcome is "failed", in order
FailedPaths(paths, outs) ==
  IF outs = <<>> THEN <<>>
  ELSE (IF outs[1] = "failed" THEN <<paths[1]>> ELSE <<>>)
         \o FailedPaths(Tail(paths), Tail(outs))

\* the error list of a batch: errors of syncFiles, failedFiles of db:sync
ErrorList(b) == IF b.caller = "dbsync" THEN b.result.failedFiles ELSE b.result.errors

\* C7: a batch attempts every input path once, in order, whatever fails: the
\* calls made so far are the first paths of the input, the error list holds
\* one entry per failed path, in order and with the path, and the batch ends
\* only when every path has been attempted.
C7_BatchIsolation ==
  batch.caller # "none" /\ batch.status \in {"running", "done"} =>
    /\ batch.attempts = SubSeq(batch.paths, 1, Len(batch.attempts))
    /\ Len(batch.attempts) = Min(batch.i, Len(batch.paths))
    /\ Len(batch.outs) = batch.i - 1
    /\ [k \in DOMAIN ErrorList(batch) |-> ErrorList(batch)[k][1]]
         = FailedPaths(batch.paths, batch.outs)
    /\ batch.status = "done" <=> Len(batch.outs) = Len(batch.paths)

C7_Witness ==
  /\ batch.caller = "tool"
  /\ batch.status = "done"
  /\ batch.outs = <<"failed", "ok">>
  /\ Len(batch.result.errors) = 1

\* the chunk of the running or ended call with a given index
ChunkAt(filePath, content, index) ==
  LET chunks == chunkDocument(filePath, content, getFileType(filePath))
  IN chunks[CHOOSE i \in DOMAIN chunks : chunks[i].index = index]

\* C8: no chunk longer than 4000 characters is sent to the embedding service
\* or stored or returned by a query; a call that returns has sent and stored
\* every chunk of at most 4000 characters, oversized chunks or not.
C8_OversizedPolicy ==
  /\ pc \in {"embed", "insert"} =>
       \A i \in DOMAIN call.sent :
         TLen(ChunkAt(call.filePath, call.content, call.sent[i]).content) <= OVERSIZE_LIMIT
  /\ \A r \in DOMAIN store : TLen(r.content) <= OVERSIZE_LIMIT
  /\ reply.tool = "query" =>
       \A i \in DOMAIN reply.results : TLen(reply.results[i].content) <= OVERSIZE_LIMIT
  /\ ret.kind = "ok" =>
       LET chunks == chunkDocument(ret.filePath, ret.content, ret.fileType) IN
       \A i \in DOMAIN chunks :
         TLen(chunks[i].content) <= OVERSIZE_LIMIT =>
           /\ \E j \in DOMAIN ret.sent : ret.sent[j] = chunks[i].index
           /\ \E r \in DOMAIN RowsOf(store, ret.filePath) :
                r.chunk_index = chunks[i].index /\ r.content = chunks[i].content

C8_Witness ==
  /\ ret.kind = "ok"
  /\ ret.content = OverDoc
  /\ \E i \in DOMAIN chunkDocument(ret.filePath, ret.content, ret.fileType) :
       TLen(chunkDocument(ret.filePath, ret.content, ret.fileType)[i].content) > OVERSIZE_LIMIT
  /\ BagCardinality(RowsOf(store, ret.filePath)) = 1

\* C9: no two rows of the table have the same (file_path, chunk_index).
C9_UniqueChunkIndex ==
  /\ \A r \in DOMAIN store : store[r] = 1
  /\ \A r1, r2 \in DOMAIN store :
       (r1.file_path = r2.file_path /\ r1.chunk_index = r2.chunk_index) => r1 = r2

C9_Witness ==
  /\ ret.kind = "failed" /\ ret.at = "embed"
  /\ BagCardinality(RowsOf(ret.pre, ret.filePath)) = 2
  /\ BagCardinality(RowsOf(store, ret.filePath)) = 1

\* C10: when the hook's sync has failed (syncFiles reported errors, or the
\* script threw), the hook exits with code 1.
C10_HookBlocksOnFailure ==
  ( /\ batch.caller = "hook"
    /\ exit # NoExit
    /\ \/ batch.status = "threw"
       \/ Len(batch.result.errors) > 0 )
  => exit = 1

\* C11: only a path of extension md is chunked by headings; every other path
\* is chunked by the fixed window, so that its chunks are those of
\* chunkPlainText on its content.
C11_StrategyByFileType ==
  chunker.pc \in {"md", "plain", "done"} =>
    /\ chunker.strategy = "headings" <=> chunker.filePath[2] = "md"
    /\ (chunker.pc = "done" /\ chunker.filePath[2] # "md") =>
         chunker.chunks = chunkPlainText(chunker.content)

CeilDiv(a, b) == (a + b - 1) \div b

\* C12: the fixed window makes at most ceil(L / (M - O)) chunks of a content
\* of length L.
C12_ChunkCountBound ==
  (chunker.pc = "done" /\ chunker.strategy = "window") =>
    Len(chunker.chunks) <= CeilDiv(TLen(chunker.text), MAX_CHUNK_SIZE - OVERLAP_SIZE)

\* C13: in chunkPlainText the window start strictly increases from one round
\* to the next, a round whose next start would not advance is the last one,
\* and every call returns.
C13_PlainLoopTerminates ==
  /\ [][(chunker.pc = "plain" /\ chunker'.pc = "plain") =>
          chunker'.start > chunker.start]_vars
  /\ [][( /\ chunker.pc = "plain"
          /\ chunker.start < TLen(chunker.text)
          /\ Min(chunker.start + MAX_CHUNK_SIZE, TLen(chunker.text)) - OVERLAP_SIZE
               <= chunker.start )
        => chunker'.pc = "done"]_vars
  /\ (chunker.pc = "plain") ~> (chunker.pc = "done")

C13_Witness ==
  /\ chunker.pc = "done" /\ chunker.strategy = "window"
  /\ Len(chunker.chunks) = 3
  /\ chunker.start > MAX_CHUNK_SIZE

RECURSIVE NonOverlapping(_, _)
\* the chunks from position i on, each without the overlap it repeats
NonOverlapping(chunks, i) ==
  IF i > Len(chunks) THEN <<>>
  ELSE TConcat(IF i = 1 THEN chunks[i].content
               ELSE TSlice(chunks[i].content, OVERLAP_SIZE, TLen(chunks[i].content)),
               NonOverlapping(chunks, i + 1))

RECURSIVE Visible(_)
\* the number of characters of a text that are not whitespace
Visible(t) ==
  IF t = <<>> THEN 0 ELSE (IF t[1][1] = "x" THEN t[1][2] ELSE 0) + Visible(Tail(t))

\* C14: the chunks in index order, each but the first without its leading
\* overlap, give back the content: at the least, as many characters that are
\* not whitespace as the content has, none of them missing.
C14_Coverage ==
  chunker.pc = "done" =>
    Visible(NonOverlapping(chunker.chunks, 1)) = Visible(Flatten(chunker.content))

\* C15: no chunk is longer than MAX_CHUNK_SIZE.
C15_ChunkSizeBound ==
  chunker.pc = "done" =>
    \A i \in DOMAIN chunker.chunks : TLen(chunker.chunks[i].content) <= MAX_CHUNK_SIZE

\* the titles of the headings of a content that have body text
HeadedSections(doc) ==
  {doc[i][3] : i \in {j \in DOMAIN doc : /\ IsHeading(doc[j])
                                         /\ j + 1 <= Len(doc)
                                         /\ TTrim(doc[j + 1][2]) # <<>>}}

\* C16: the body text of a chunk of a Markdown file stood under the heading
\* that is the chunk's label and under no other, and every heading that has
\* body text labels at least one chunk.
C16_SectionLabels ==
  (chunker.pc = "done" /\ chunker.strategy = "headings") =>
    /\ \A i \in DOMAIN chunker.chunks :
         chunker.origins[i] \subseteq {chunker.chunks[i].section}
    /\ \A title \in HeadedSections(chunker.content) :
         \E i \in DOMAIN chunker.chunks : chunker.chunks[i].section = title

\* C17: every chunk has content that is not empty after trimming.
C17_NoBlankChunk ==
  chunker.pc = "done" =>
    \A i \in DOMAIN chunker.chunks : TTrim(chunker.chunks[i].content) # <<>>

\* writer w is between its DELETE and its return
InSequence(w) == writers[w].pc \in {"embed", "insert"}

\* C18: no two syncFile calls are between their DELETE and their return for
\* the same path at one time, and the rows of a path never come from two
\* calls (they carry one file fingerprint).
C18_WritesSerialized ==
  /\ \A w1, w2 \in DOMAIN writers :
       (w1 # w2 /\ InSequence(w1) /\ InSequence(w2)) =>
         writers[w1].filePath # writers[w2].filePath
  /\ \A p \in Paths : Cardinality(Fingerprints(store, p)) <= 1

\* the rows of a path come from two calls
Blend == \E p \in Paths : Cardinality(Fingerprints(store, p)) > 1

\* syncFile is at one of its awaits
InCall == pc \in {"read", "lookup", "delete", "embed", "insert"}

\* C19: while a statement of a syncFile call is pending, the call is the one
\* for the file at the loop's position and every file before it has ended;
\* the loop moves on by one file, in the step in which the call for the file
\* at its position ends: failed, skipped, or returned after its DELETE and one
\* INSERT for every chunk sent.
C19_OneFileAtATime ==
  /\ [](InCall =>
          /\ batch.status = "running"
          /\ call.filePath = batch.paths[batch.i]
          /\ Len(batch.outs) = batch.i - 1)
  /\ [][(batch.caller # "none" /\ batch'.caller = batch.caller /\ batch'.i # batch.i) =>
          /\ InCall
          /\ batch'.i = batch.i + 1
          /\ batch'.outs = Append(batch.outs, ret'.kind)
          /\ ret'.filePath = batch.paths[batch.i]
          /\ ret'.kind = "ok" =>
               ret'.stmts = <<"DELETE">> \o [n \in 1..Len(ret'.sent) |-> "INSERT"]
          /\ (pc' = "read") => call'.filePath = batch.paths[batch.i + 1]]_vars

C19_Witness ==
  /\ pc = "insert"
  /\ batch.i = 2
  /\ batch.outs = <<"ok">>
  /\ call.filePath = MdPath
  /\ batch.paths[1] = TsPath

\* C20: embed returns one vector per text, the vector of the text at the same
\* position; it sends one request per text, in order, and none for no text;
\* a call with a request that failed has thrown and returned nothing, and a
\* returned list holds no vector but the service's.
C20_EmbedContract ==
  /\ client.pc \in {"fetch", "returned", "thrown"} =>
       client.requests = SubSeq(client.texts, 1, Len(client.requests))
  /\ client.pc = "returned" =>
       /\ Len(client.result) = Len(client.texts)
       /\ \A i \in DOMAIN client.texts : client.result[i] = OllamaEmbedding(client.texts[i])
       /\ Len(client.requests) = Len(client.texts)
       /\ \A i \in DOMAIN client.responses : client.responses[i] = "ok"
  /\ (client.pc \in {"returned", "thrown"}
        /\ \E i \in DOMAIN client.responses : client.responses[i] # "ok") =>
       /\ client.pc = "thrown"
       /\ client.result = NoResult
       /\ Len(client.requests) = Len(client.responses)

C20_Witness ==
  /\ client.pc = "returned"
  /\ client.texts = <<X(2), X(1), X(2)>>
  /\ client.result = <<OllamaEmbedding(X(2)), OllamaEmbedding(X(1)), OllamaEmbedding(X(2))>>
  /\ OllamaEmbedding(X(2)) # OllamaEmbedding(X(1))

\* ------------------------------------------- the health probe

\* the most probes of one run
MaxProbes == 3

\* what the GET of /api/tags comes to: a success status, another status, a
\* rejected fetch, or the abort of AbortSignal.timeout(5000)
ProbeOutcomes == {"ok", "status", "rejected", "timeout"}

ProbeCallers == {"health", "isEmbeddingServiceAvailable"}

IdleProbe(log) == [pc |-> "idle", caller |-> "", log |-> log]

HealthInit ==
  /\ files = [p \in Paths |-> Missing]
  /\ store = EmptyBag
  /\ pc = "idle"
  /\ batch = NoBatch
  /\ call = NoCall
  /\ ret = NoRet
  /\ synced = [p \in Paths |-> NotSynced]
  /\ reply = NoReply
  /\ exit = NoExit
  /\ chunker = NoChunker
  /\ client = IdleProbe(<<>>)
  /\ writers = NoWriters

\* a health() without its catch
healthUncaught(outcome) ==
  IF outcome = "ok" THEN [value |-> TRUE, raised |-> FALSE]
  ELSE IF outcome = "status" THEN [value |-> FALSE, raised |-> FALSE]
  ELSE [value |-> FALSE, raised |-> TRUE]

\* health(), lines 65-75: response.ok, and false from the catch
health(outcome) ==
  IF outcome = "ok" THEN [value |-> TRUE, raised |-> FALSE]
  ELSE IF outcome = "status" THEN [value |-> FALSE, raised |-> FALSE]
  ELSE [value |-> FALSE, raised |-> FALSE]

\* isEmbeddingServiceAvailable(), lines 87-93: health(), and false from the
\* catch
isEmbeddingServiceAvailable(outcome) ==
  IF health(outcome).raised THEN [value |-> FALSE, raised |-> FALSE]
  ELSE health(outcome)

\* the probe is called and its request sent
HealthCall(caller) ==
  /\ client.pc = "idle"
  /\ Len(client.log) < MaxProbes
  /\ client' = [client EXCEPT !.pc = "probe", !.caller = caller]
  /\ UNCHANGED <<syncVars, chunker, writers>>

\* the request is over and the probe ends
HealthFetch(outcome) ==
  /\ client.pc = "probe"
  /\ LET r == IF client.caller = "health" THEN health(outcome)
              ELSE isEmbeddingServiceAvailable(outcome)
     IN client' = IdleProbe(Append(client.log,
                     [caller |-> client.caller, outcome |-> outcome,
                      value |-> r.value, raised |-> r.raised]))
  /\ UNCHANGED <<syncVars, chunker, writers>>

HealthNext ==
  \/ \E caller \in ProbeCallers : HealthCall(caller)
  \/ \E outcome \in ProbeOutcomes : HealthFetch(outcome)

SpecHealth == HealthInit /\ [][HealthNext]_vars

\* C24: no probe raises; health() and isEmbeddingServiceAvailable() give true
\* exactly for a success status, and false for another status, a rejected
\* fetch and a timeout.
C24_HealthNeverRaises ==
  \A i \in DOMAIN client.log :
    /\ ~client.log[i].raised
    /\ client.log[i].value \in BOOLEAN
    /\ client.log[i].value <=> client.log[i].outcome = "ok"

C24_Witness ==
  /\ client.pc = "idle"
  /\ \E i \in DOMAIN client.log :
       /\ client.log[i].caller = "health"
       /\ client.log[i].outcome = "timeout"
       /\ ~client.log[i].value
  /\ \E i \in DOMAIN client.log :
       /\ client.log[i].caller = "isEmbeddingServiceAvailable"
       /\ client.log[i].outcome = "ok"
       /\ client.log[i].value
  /\ \E i \in DOMAIN client.log : client.log[i].outcome = "rejected"

\* ------------------------------------------- the retriever on its own

JsonPath == <<"cfg/d", "json">>

\* the rows of a synced file; none for a file that is not indexed
RowsIf(filePath, content) ==
  IF content = Missing THEN EmptyBag ELSE CompleteRows(filePath, content)

\* the tables of the retriever's model: each file indexed or not; the
\* embeddings of its chunks are of the query's direction (4 characters),
\* against it (10 characters) and in between
QueryStores ==
  {RowsIf(MdPath, a) (+) RowsIf(TsPath, b) (+) RowsIf(JsonPath, c) :
     a \in {Missing, << Body(X(4)) >>, SmallDoc, ExactDoc},
     b \in {Missing, << Body(X(7)) >>, << Body(X(OVERLAP_SIZE + 1)) >>},
     c \in {Missing, << Body(X(4)) >>}}

TopKs == {0, 1, 2, DefaultTopK}

Filters == {<<>>, <<"md">>, <<"ts", "json">>, <<"tsx">>}

QueryInit ==
  /\ files = [p \in Paths |-> Missing]
  /\ store \in QueryStores
  /\ pc = "idle"
  /\ batch = NoBatch
  /\ call = NoCall
  /\ ret = NoRet
  /\ synced = [p \in Paths |-> NotSynced]
  /\ reply = NoReply
  /\ exit = NoExit
  /\ chunker = NoChunker
  /\ client = NoClient
  /\ writers = NoWriters

\* a search whose failure goes up to the caller
OnQueryFailureRaising == [failed |-> TRUE, raised |-> TRUE, results |-> <<>>]

\* db.ts lines 152-155: the catch of queryVectorDatabase returns []
OnQueryFailure == [failed |-> TRUE, raised |-> FALSE, results |-> <<>>]

\* queryVectorDatabase(query, topK, fileTypeFilter): what a call can come to,
\* the embedding of the query or the SELECT having failed or not
queryVectorDatabase(table, topK, filter) ==
  {OnQueryFailure} \cup
  {[failed |-> FALSE, raised |-> FALSE,
    results |-> [i \in DOMAIN rows |-> ResultOf(rows[i], OllamaEmbedding(QueryText))]] :
     rows \in Ranked(Candidates(table, filter), OllamaEmbedding(QueryText), topK)}

NoContextText == "No relevant context found"
ContextText == "Relevant Codebase Context"

\* queryTool: queryVectorDatabase(query, topK), then the text of the answer
QueryTool(topK) ==
  /\ UNCHANGED others
  /\ reply = NoReply
  /\ \E out \in queryVectorDatabase(store, topK, <<>>) :
       reply' = [tool |-> "queryTool", failed |-> out.failed, raised |-> out.raised,
                 topK |-> topK, filter |-> <<>>, results |-> out.results,
                 text |-> IF out.raised THEN "Error"
                          ELSE IF Len(out.results) = 0 THEN NoContextText
                          ELSE ContextText]
  /\ UNCHANGED <<files, store, pc, batch, call, ret, synced, exit>>

QueryNext ==
  \/ \E topK \in TopKs, filter \in Filters : Query(topK, filter)
  \/ \E topK \in TopKs : QueryTool(topK)
  \/ Forget

SpecQuery == QueryInit /\ [][QueryNext]_vars

\* C21: queryTool's search never raises; a failed search and a search of an
\* empty table give the empty list, and the empty list is answered with the
\* "No relevant context found" text, not with an error.
C21_QueryNeverRaises ==
  reply.tool = "queryTool" =>
    /\ ~reply.raised
    /\ reply.failed => reply.results = <<>>
    /\ store = EmptyBag => reply.results = <<>>
    /\ reply.results = <<>> <=> reply.text = NoContextText
    /\ reply.text \in {NoContextText, ContextText}

C21_Witness ==
  /\ reply.tool = "queryTool"
  /\ reply.failed
  /\ store # EmptyBag
  /\ reply.text = NoContextText

C23_SimilarityRange ==
  (reply.tool \in {"query", "queryTool"} /\ ~reply.failed) =>
    \A i \in DOMAIN reply.results :
      /\ reply.results[i].similarity.dot >= 0
      /\ reply.results[i].similarity.dot * reply.results[i].similarity.dot
           <= reply.results[i].similarity.norm2

\* C28: a call of queryVectorDatabase or queryTool, failed or not, leaves the
\* table as it is.
C28_RetrieverOnlyReads ==
  [][(reply = NoReply /\ reply'.tool \in {"query", "queryTool"}) => store' = store]_vars

C28_Witness ==
  /\ reply.tool = "query"
  /\ reply.failed
  /\ BagCardinality(store) = 5

\* ------------------------------------------- the keys of the entry points

\* An absolute path is <<name, extension, root>>; a path relative to the
\* workspace root is <<name, extension>>.
WorkspaceRoot == "/workspace"

\* path.isAbsolute(f)
isAbsolute(f) == Len(f) = 3

\* path.join(workspaceRoot, f) of a relative path, and path.resolve(root, f)
Resolve(root, f) == IF isAbsolute(f) THEN f ELSE <<f[1], f[2], root>>

\* the file of the working tree that a path names: syncFile reads
\* path.resolve(PROJECT_ROOT, filePath) (lines 48 and 52)
FileAt(f) == <<f[1], f[2]>>

\* the keys a file can be passed under
PathForms == Paths \cup {Resolve(WorkspaceRoot, p) : p \in Paths}

\* the file lists a caller of cortex_sync can name
ToolLists == UNION {[1..n -> PathForms] : n \in 1..MaxBatch}

\* the contents of the files of this model
PathDocs == {SmallDoc, << Body(X(7)) >>}

\* syncFile(filePath, force) with no statement failing: the tables it can
\* leave (the file is missing: it throws before any statement)
syncFileTables(table, filePath, force) ==
  LET content == files[FileAt(Resolve(WorkspaceRoot, filePath))] IN
  IF content = Missing THEN {table}
  ELSE {IF IsUnchanged(force, existing, hashFile(content)) THEN table
        ELSE DeletePath(table, filePath) (+) CompleteRows(filePath, content) :
          existing \in SelectFileHash(table, filePath)}

RECURSIVE syncFilesTables(_, _, _)
\* syncFiles(filePaths, force): syncFile on each path in turn
syncFilesTables(table, filePaths, force) ==
  IF filePaths = <<>> THEN {table}
  ELSE UNION {syncFilesTables(t, Tail(filePaths), force) :
                t \in syncFileTables(table, filePaths[1], force)}

\* collectFilesToSync: the files of the workspace, glob with absolute: true
collectFilesToSync ==
  {l \in ToolLists :
     /\ \A i, j \in DOMAIN l : i # j => l[i] # l[j]
     /\ Range(l) = {Resolve(WorkspaceRoot, p) : p \in {x \in Paths : files[x] # Missing}}}

PathsInit ==
  /\ files = [p \in Paths |-> Missing]
  /\ store = EmptyBag
  /\ pc = "idle"
  /\ batch = NoBatch
  /\ call = NoCall
  /\ ret = NoRet
  /\ synced = [p \in Paths |-> NotSynced]
  /\ reply = NoReply
  /\ exit = NoExit
  /\ chunker = NoChunker
  /\ client = NoClient
  /\ writers = NoWriters

PathsFrame == UNCHANGED <<pc, call, ret, synced, reply, exit, chunker, client, writers>>

\* the run that has ended: who called, the files named or staged, and the
\* paths passed to syncFiles
RunOf(caller, named, filePaths) ==
  [caller |-> caller, named |-> named, paths |-> filePaths]

\* tools/sync.ts, syncTool with files: lines 56-59 make every path absolute
PSyncTool(filesArg, force) ==
  /\ LET filesToSync == [i \in DOMAIN filesArg |-> Resolve(WorkspaceRoot, filesArg[i])] IN
     /\ store' \in syncFilesTables(store, filesToSync, force)
     /\ batch' = RunOf("tool", filesArg, filesToSync)
  /\ UNCHANGED files
  /\ PathsFrame

\* tools/sync.ts, syncTool without files (lines 60-71), and scripts/sync.ts:
\* the collected files
PSyncAll(caller, force) ==
  /\ \E filesToSync \in collectFilesToSync :
       /\ store' \in syncFilesTables(store, filesToSync, force)
       /\ batch' = RunOf(caller, <<>>, filesToSync)
  /\ UNCHANGED files
  /\ PathsFrame

\* git-sync main with the services available and no ignore pattern: the staged
\* files that exist, as git names them (relative), lines 244-280
PHook(staged) ==
  /\ store' \in syncFilesTables(store, FilesToSync(staged, {}), FALSE)
  /\ batch' = RunOf("hook", staged, FilesToSync(staged, {}))
  /\ UNCHANGED files
  /\ PathsFrame

\* f.startsWith(workspaceRoot)
startsWith(f, root) == isAbsolute(f) /\ f[3] = root

\* tools/delete.ts lines 41-48: with WORKSPACE_ROOT set, a path that does not
\* begin with it is put under it; workspaceRoot is "" when it is not set
deletePaths(workspaceRoot, filesArg) ==
  [i \in DOMAIN filesArg |->
     IF workspaceRoot # "" /\ ~startsWith(filesArg[i], workspaceRoot)
     THEN <<filesArg[i][1], filesArg[i][2], workspaceRoot>>
     ELSE filesArg[i]]

\* the file lists a caller of cortex_delete names: none, or one path
DeleteLists == {<<>>} \cup {<<f>> : f \in PathForms}

\* the statement of deleteTool that fails, if one does (the SELECT COUNT of
\* line 77 failing is as the DELETE failing: nothing is changed)
DeleteFailures == {"none", "delete", "update"}

\* tools/delete.ts, deleteTool: no statement without confirm; the DELETE of
\* the mapped paths; or the DELETE of all rows and the UPDATE of the metadata
PDelete(filesArg, confirm, workspaceRoot, fails) ==
  /\ fails = "update" => (confirm /\ filesArg = <<>>)
  /\ fails = "delete" => confirm
  /\ store' = IF ~confirm \/ fails = "delete" THEN store
              ELSE IF filesArg # <<>>
              THEN [r \in {x \in DOMAIN store :
                             x.file_path \notin Range(deletePaths(workspaceRoot, filesArg))}
                      |-> store[r]]
              ELSE EmptyBag
  /\ batch' = [caller |-> "delete", named |-> filesArg, confirm |-> confirm,
               root |-> workspaceRoot, failed |-> fails # "none",
               stmts |-> IF ~confirm THEN <<>>
                         ELSE IF filesArg # <<>> THEN <<"DELETE">>
                         ELSE IF fails = "delete" THEN <<"SELECT">>
                         ELSE <<"SELECT", "DELETE", "UPDATE">>]
  /\ UNCHANGED files
  /\ PathsFrame

\* the working tree changes between the runs
PEdit(p, c) ==
  /\ c # files[p]
  /\ files' = [files EXCEPT ![p] = c]
  /\ batch' = NoBatch
  /\ UNCHANGED store
  /\ PathsFrame

PathsNext ==
  \/ \E filesArg \in ToolLists, force \in BOOLEAN : PSyncTool(filesArg, force)
  \/ \E caller \in {"tool", "dbsync"}, force \in BOOLEAN : PSyncAll(caller, force)
  \/ \E staged \in BatchLists : PHook(staged)
  \/ \E p \in Paths, c \in PathDocs \cup {Missing} : PEdit(p, c)
  \/ \E filesArg \in DeleteLists, confirm \in BOOLEAN,
        workspaceRoot \in {"", WorkspaceRoot}, fails \in DeleteFailures :
       PDelete(filesArg, confirm, workspaceRoot, fails)

SpecPaths == PathsInit /\ [][PathsNext]_vars

\* C25: every stored record's file_path is relative to the workspace root,
\* whichever entry point wrote it, so the records of one file are under one key.
C25_RelativeKeys ==
  /\ \A r \in DOMAIN store : ~isAbsolute(r.file_path)
  /\ \A r1, r2 \in DOMAIN store :
       FileAt(r1.file_path) = FileAt(r2.file_path) => r1.file_path = r2.file_path

\* C26: after a run of the pre-commit hook with the services available, every
\* staged file that exists has the complete records of its current content
\* under its path, and a staged file that is deleted has no records under it.
C26_AlwaysFresh ==
  batch.caller = "hook" =>
    \A i \in DOMAIN batch.named :
      IF files[batch.named[i]] # Missing
      THEN RowsOf(store, batch.named[i]) = CompleteRows(batch.named[i], files[batch.named[i]])
      ELSE RowsOf(store, batch.named[i]) = EmptyBag

\* C27: deleteTool without confirm executes no statement and leaves the table
\* as it is, whatever files is; with confirm and no failure it removes every
\* record whose file_path is a named path and leaves the records of the other
\* files as they are, or removes all records when no file is named.
C27_DeleteNeedsConfirm ==
  [][batch'.caller = "delete" =>
       /\ ~batch'.confirm => (store' = store /\ batch'.stmts = <<>>)
       /\ (batch'.confirm /\ batch'.failed) => store' \in {store, EmptyBag}
       /\ (batch'.confirm /\ ~batch'.failed /\ batch'.named = <<>>) => store' = EmptyBag
       /\ (batch'.confirm /\ ~batch'.failed /\ batch'.named # <<>>) =>
            /\ \A r \in DOMAIN store' : r.file_path \notin Range(batch'.named)
            /\ \A r \in DOMAIN store :
                 FileAt(r.file_path) \notin {FileAt(f) : f \in Range(batch'.named)} =>
                   (r \in DOMAIN store' /\ store'[r] = store[r])
            /\ \A r \in DOMAIN store' : r \in DOMAIN store /\ store'[r] = store[r]
    ]_vars

\* C29: whenever syncFile reports a path as skipped because it is unchanged,
\* the table holds the complete set of the chunks of the file's content that
\* are not oversized, whatever calls came before.
C29_SkippedIsComplete ==
  ret.kind = "skipped" =>
    RowsOf(store, ret.filePath) = CompleteRows(ret.filePath, ret.content)

\* C30: with one writer working call after call, all rows of one file_path
\* carry the same file_hash in every state, so the lookup of one row of the
\* path without ordering has one possible answer.
C30_OneFingerprintPerPath ==
  \A p \in Paths :
    /\ Cardinality(Fingerprints(store, p)) <= 1
    /\ Cardinality(SelectFileHash(store, p)) = 1

C30_Witness ==
  /\ ret.kind = "failed"
  /\ Fingerprints(store, ret.filePath) = {ret.fileHash}
  /\ Fingerprints(ret.pre, ret.filePath) # {}
  /\ Fingerprints(ret.pre, ret.filePath) # Fingerprints(store, ret.filePath)
  /\ RowsOf(store, ret.filePath) # CompleteRows(ret.filePath, ret.content)

RECURSIVE OkPaths(_, _)
\* the paths of a list whose call ended neither skipped nor failed, in order
OkPaths(paths, outs) ==
  IF paths = <<>> \/ outs = <<>> THEN <<>>
  ELSE (IF outs[1] = "ok" THEN <<paths[1]>> ELSE <<>>) \o OkPaths(Tail(paths), Tail(outs))

\* C31: the result of syncFiles accounts for every input path once:
\* filesProcessed + chunksSkipped + errors.length is the number of paths (of
\* the paths gone through, while the loop runs), files has filesProcessed
\* entries, the paths neither skipped nor failed in input order, and
\* chunksUpdated is 0.
C31_SyncOutcomeAccounting ==
  batch.caller \in {"tool", "hook"} =>
    /\ batch.result.filesProcessed + batch.result.chunksSkipped + Len(batch.result.errors)
         = Len(batch.outs)
    /\ batch.status = "done" => Len(batch.outs) = Len(batch.paths)
    /\ Len(batch.result.files) = batch.result.filesProcessed
    /\ batch.result.files = OkPaths(batch.paths, batch.outs)
    /\ batch.result.chunksUpdated = 0

C31_Witness ==
  /\ batch.caller = "tool"
  /\ batch.status = "done"
  /\ Len(batch.paths) = 2
  /\ batch.outs[1] = "failed" /\ batch.outs[2] = "ok"
  /\ batch.result.files = <<batch.paths[2]>>

\* the INSERT statements among the statements of a call
Inserts(stmts) == Cardinality({i \in DOMAIN stmts : stmts[i] = "INSERT"})

\* C32: chunksCreated of syncFiles' result is the number of rows the batch has
\* inserted: each call that ends adds to it the number of its INSERTs, the
\* calls that fail after some INSERTs included.
C32_ChunksCreatedCountsInserts ==
  [][(/\ batch.caller \in {"tool", "hook"}
      /\ batch'.caller = batch.caller
      /\ Len(batch'.outs) = Len(batch.outs) + 1)
     => batch'.result.chunksCreated = batch.result.chunksCreated + Inserts(ret'.stmts)]_vars

\* C33: a syncFile that fails reading the file or looking up the fingerprint
\* has executed no DELETE and no INSERT, and the rows of the path are those
\* from before the call.
C33_EarlyFailureChangesNothing ==
  (ret.kind = "failed" /\ ret.at \in {"read", "lookup"}) =>
    /\ ret.stmts = <<>>
    /\ ret.sent = <<>>
    /\ RowsOf(store, ret.filePath) = RowsOf(ret.pre, ret.filePath)

C33_Witness ==
  /\ ret.kind = "failed"
  /\ ret.at = "lookup"
  /\ BagCardinality(RowsOf(ret.pre, ret.filePath)) = 2
  /\ RowsOf(store, ret.filePath) = RowsOf(ret.pre, ret.filePath)

\* the chunk indexes of the chunks that are not oversized, in order
EmbeddableIndexes(chunks) ==
  [i \in DOMAIN Embeddable(chunks) |-> Embeddable(chunks)[i].index]

\* C34: a successful syncFile with force on a path that holds the complete
\* rows of the file's unchanged content sends every chunk that is not
\* oversized to the embedding service and leaves the path with the same rows.
C34_ForcedResyncIdempotent ==
  ( /\ ret.kind = "ok"
    /\ ret.force
    /\ RowsOf(ret.pre, ret.filePath) = CompleteRows(ret.filePath, ret.content) )
  => /\ RowsOf(store, ret.filePath) = RowsOf(ret.pre, ret.filePath)
     /\ ret.sent = EmbeddableIndexes(chunkDocument(ret.filePath, ret.content, ret.fileType))

C34_Witness ==
  /\ ret.kind = "ok"
  /\ ret.force
  /\ Inserts(ret.stmts) = 2
  /\ RowsOf(ret.pre, ret.filePath) = CompleteRows(ret.filePath, ret.content)
  /\ RowsOf(store, ret.filePath) = RowsOf(ret.pre, ret.filePath)

\* what C36 asks of a call with locals c at position at (ended or not)
OneRequestPerChunk(c, at, kind) ==
  IF ~c.chunked
  THEN c.sent = <<>> /\ Inserts(c.stmts) = 0 /\ kind # "ok"
  ELSE LET want == EmbeddableIndexes(chunkDocument(c.filePath, c.content, c.fileType)) IN
       /\ Len(c.sent) <= Len(want)
       /\ c.sent = SubSeq(want, 1, Len(c.sent))
       /\ \A i, j \in DOMAIN c.sent : i < j => c.sent[i] < c.sent[j]
       /\ kind = "ok" => (c.sent = want /\ Inserts(c.stmts) = Len(want))
       /\ kind # "ok" => (at \in {"embed", "insert"} /\ Inserts(c.stmts) = Len(c.sent) - 1)

C37_DeleteAllOrNothing ==
  [][(reply = NoReply /\ reply'.tool = "delete" /\ reply'.text = "Deletion failed")
       => store' = store]_vars

\* C35: each chunk after the first holds at least one character of the input
\* that lies past the end of the chunk before it, under both strategies.
C35_NoRedundantChunk ==
  chunker.pc \in {"md", "plain", "done"} =>
    \A i \in DOMAIN chunker.fresh : i > 1 => chunker.fresh[i] > 0

\* the chunks of the step-by-step chunker are those of chunkDocument
ChunkerAgrees ==
  chunker.pc = "done" =>
    chunker.chunks = chunkDocument(chunker.filePath, chunker.content, chunker.fileType)

=============================================================================
